---- MODULE Spec2Model ----
(***************************************************************************)
(* A model of pdkit's gait processor (src/pdkit/gait_processor.py):        *)
(*   - GaitProcessor.freeze_of_gait   (sliding-window band-energy ratio)   *)
(*   - GaitProcessor.frequency_of_peaks                                    *)
(*   - heel_strikes and gait (module-level functions taking self)          *)
(* Arrays are 0-based in the source; here they are sequences, and At(s, i) *)
(* reads the element at the source's index i.  The quotients of the freeze *)
(* index, the peak frequency and the cadence are records of a numerator    *)
(* and a denominator, and numpy's non-finite results (inf, nan) are kinds  *)
(* of that record.  The strike times and the step and stride durations are *)
(* float64 values, and every operation on them rounds as IEEE 754 does     *)
(* (to nearest, ties to even): see "float64 arithmetic" below.  The        *)
(* library calls of the source whose code is not in the file (FFT,         *)
(* Butterworth filter, interpeak estimate) appear as inputs: their outputs *)
(* are drawn from small sets.                                              *)
(***************************************************************************)
EXTENDS Integers, Sequences, FiniteSets, TLC

VARIABLES
    op,                 \* the function under call
    pc,                 \* position in the call
    err,                \* the exception the call raised ("none" if none)
    \* ---- freeze_of_gait
    data,               \* resampled y-axis signal (line 111)
    window,             \* self.window
    step_size,          \* self.step_size
    jPos,               \* window end position
    time,               \* list `time`
    sumLocoFreeze,      \* list `sumLocoFreeze`
    freezeIndex,        \* list `freezeIndex`
    area_type,          \* what numerical_integration returns: "numpy" or "python"
    \* ---- frequency_of_peaks
    xsig,               \* data_frame.x
    start_end_offset,   \* self.start_end_offset
    delta,              \* self.delta
    maxtab,             \* maxima found by peakdet: <<position, value>> pairs
    frequency,          \* the returned frequency_of_peaks
    \* ---- heel_strikes
    mag,                \* |x| + |y| + |z| per sample (line 260)
    filtered,           \* output of butter_lowpass_filter (line 265)
    decel,              \* int(interpeak / 2) (line 284)
    threshold,          \* self.threshold, in halves
    strike_indices_smooth,
    strike_indices,
    strikes,
    \* ---- gait
    step_durations,
    number_of_steps,
    strides,
    stride_durations,
    distance,           \* self.distance (0: not set)
    measures,           \* velocity, avg_step_length, avg_stride_length
    self_attrs,         \* which of the attributes gait reads `self` provides
    duration,           \* self.duration, where self provides it
    cadence

freezeVars == <<data, window, step_size, jPos, time, sumLocoFreeze, freezeIndex,
                area_type>>
peakVars   == <<xsig, start_end_offset, delta, maxtab, frequency>>
heelVars   == <<mag, filtered, decel, threshold, strike_indices_smooth,
                strike_indices, strikes>>
gaitVars   == <<step_durations, number_of_steps, strides, stride_durations,
                distance, measures, self_attrs, duration, cadence>>
vars == <<op, pc, err, freezeVars, peakVars, heelVars, gaitVars>>

(***************************************************************************)
(* Bounds of the model.                                                    *)
(***************************************************************************)
MaxLen    == 5      \* longest signal of freeze_of_gait
MaxWindow == 2      \* largest window
MaxStep   == 2      \* largest step_size
MaxArea   == 1      \* largest band area
MaxIter   == 3      \* cap on loop iterations (a loop that never advances)
PeakLen   == 6      \* longest x-axis signal of frequency_of_peaks
MaxVal    == 3      \* largest sample value of the x axis
MaxDelta  == 2      \* largest peak-detection sensitivity
HeelLen   == 7      \* length of the frames given to heel_strikes
MaxDecel  == 2      \* largest half-interpeak window

GaitLen   == 15     \* length of the frames given to gait
MaxDuration == 1    \* largest self.duration (s)

\* The configuration's default sampling frequency (Hz) and distance.
sampling_frequency == 100
default_distance   == 90

\* float64: the fraction bits of a value, and the resolution at which the
\* model keeps one (see Float below).
FloatBits  == 52
FloatScale == 60

(***************************************************************************)
(* Python and numpy primitives.                                            *)
(***************************************************************************)
At(s, i) == s[i + 1]

Max2(a, b) == IF a >= b THEN a ELSE b
Min2(a, b) == IF a <= b THEN a ELSE b
Abs(a)     == IF a < 0 THEN 0 - a ELSE a

\* Python's normalisation of a slice bound k against a length n: a negative
\* bound counts from the end, and the result is clipped to 0..n.
SliceBound(n, k) == IF k < 0 THEN Max2(n + k, 0) ELSE Min2(k, n)

\* s[a:b] of Python (step 1).
PySlice(s, a, b) ==
    SubSeq(s, SliceBound(Len(s), a) + 1, SliceBound(Len(s), b))

RECURSIVE SumSeq(_)
SumSeq(s) == IF s = <<>> THEN 0 ELSE Head(s) + SumSeq(Tail(s))

MaxSeq(s) == CHOOSE m \in {s[i] : i \in 1..Len(s)} : \A i \in 1..Len(s) : s[i] <= m

\* np.argmax: the 0-based position of the first maximum.
ArgMax(s) ==
    (CHOOSE i \in 1..Len(s) :
        /\ \A j \in 1..Len(s) : s[j] <= s[i]
        /\ \A j \in 1..(i - 1) : s[j] < s[i]) - 1

\* A numpy float: a finite quotient num/den (den > 0), or inf, or nan.
Finite(n, d) == [kind |-> "finite", num |-> n, den |-> d]
Inf          == [kind |-> "inf", num |-> 0, den |-> 0]
NaN          == [kind |-> "nan", num |-> 0, den |-> 0]
IsFinite(q)  == q.kind = "finite"

\* A value not assigned yet.
NotYet       == [kind |-> "unassigned", num |-> 0, den |-> 0]

\* a / b of two non-negative floats that does not raise: a finite quotient,
\* or, for numpy operands and b = 0, inf (a > 0) or nan (a = 0).
NpDivide(a, b) ==
    IF b = 0 THEN (IF a = 0 THEN NaN ELSE Inf) ELSE Finite(a, b)

\* a / b raises ZeroDivisionError when b is a Python float (or int) 0;
\* numpy operands only warn.
DivisionRaises(b, type) == type = "python" /\ b = 0

(***************************************************************************)
(* float64 arithmetic on times.                                            *)
(* A strike time is a sample index over sampling_frequency, and a duration *)
(* is a difference of such times; each is the float64 nearest to its exact *)
(* value.  Float(k, d) stands for the real number                          *)
(*     k / sampling_frequency + d / (sampling_frequency * 2^FloatScale):   *)
(* k counts samples and d is the rounding deviation, a small integer.      *)
(* Distinct pairs stand for distinct numbers, and |d| stays far below      *)
(* 2^FloatScale, so the order of two values is the order of their pairs.   *)
(***************************************************************************)
Float(k, d) == [k |-> k, d |-> d]

\* b^e mod m, by repeated squaring.
RECURSIVE PowerMod(_, _, _)
PowerMod(b, e, m) ==
    IF e = 0 THEN 1 % m
    ELSE LET h == PowerMod(b, e \div 2, m)
         IN  IF e % 2 = 0 THEN (h * h) % m ELSE (h * h * b) % m

\* floor(log2(k / sampling_frequency)) for k >= 1.
RECURSIVE Exponent(_)
Exponent(k) ==
    IF k >= 2 * sampling_frequency THEN Exponent(k \div 2) + 1
    ELSE IF k < sampling_frequency THEN Exponent(2 * k) - 1
    ELSE 0

\* The binary exponent of the positive number Float(k, d): that of
\* k / sampling_frequency, but one less when that is a power of two and d
\* is negative.
Binade(k, d) ==
    LET e == Exponent(k)
    IN  IF d < 0 /\ ( \/ (e >= 0 /\ k = sampling_frequency * 2^e)
                      \/ (e < 0 /\ k * 2^(0 - e) = sampling_frequency) )
          THEN e - 1 ELSE e

\* The distance between neighbouring float64 values of binary exponent e
\* (2^(e - FloatBits)), in the units of d.
Spacing(e) == sampling_frequency * 2^(FloatScale - FloatBits + e)

\* The float64 nearest to the positive number Float(k, d), ties to the even
\* fraction.  r2 is the number's remainder modulo twice the spacing.
RoundPositive(k, d) ==
    LET e   == Binade(k, d)
        g   == Spacing(e)
        r2  == ( 2^(FloatScale - FloatBits + 1 + e)
                    * (((k % sampling_frequency)
                          * PowerMod(2, FloatBits - 1 - e, sampling_frequency))
                       % sampling_frequency)
                 + d ) % (2 * g)
        r   == r2 % g
        odd == r2 >= g
    IN  IF 2 * r < g \/ (2 * r = g /\ ~odd)
          THEN Float(k, d - r)
          ELSE Float(k, d + g - r)

\* The float64 nearest to Float(k, d).  With k = 0 the number is 0 or the
\* difference of two float64 values closer than a factor of two, which is a
\* float64 itself.
RoundToFloat(k, d) ==
    IF k = 0 THEN Float(0, d)
    ELSE IF k < 0
      THEN LET r == RoundPositive(0 - k, 0 - d) IN Float(0 - r.k, 0 - r.d)
    ELSE RoundPositive(k, d)

\* i / sampling_frequency for an integer i, and a - b of two floats.
FloatDivide(i)  == RoundToFloat(i, 0)
FloatSub(a, b)  == RoundToFloat(a.k - b.k, a.d - b.d)

(***************************************************************************)
(* freeze_of_gait                                                          *)
(***************************************************************************)
\* The distance-based measures before gait assigns them.
Unassigned == <<"unassigned", "unassigned", "unassigned">>

\* The variables of the other functions, at rest.
PeakIdle ==
    /\ xsig = <<>> /\ start_end_offset = <<0, 0>> /\ delta = 0
    /\ maxtab = <<>> /\ frequency = NaN
HeelIdle ==
    /\ mag = <<>> /\ filtered = <<>> /\ decel = 0 /\ threshold = 0
    /\ strike_indices_smooth = <<>> /\ strike_indices = <<>> /\ strikes = <<>>
GaitIdle ==
    /\ step_durations = <<>> /\ number_of_steps = 0
    /\ strides = <<>> /\ stride_durations = <<>>
    /\ distance = 0 /\ measures = Unassigned
    /\ self_attrs = {} /\ duration = 0 /\ cadence = NotYet
FreezeIdle ==
    /\ data = <<>> /\ window = 0 /\ step_size = 0 /\ jPos = 0
    /\ time = <<>> /\ sumLocoFreeze = <<>> /\ freezeIndex = <<>>
    /\ area_type = "numpy"

Signals(n, vals) == UNION {[1..k -> vals] : k \in 0..n}

\* jPos = self.window + 1  (FirstPositionOff: the window's own length)
FirstPositionOff(w) == w
FirstPosition(w) == w + 1

\* jPos = jPos + self.step_size
NextPosition(j, s) == j + s

\* The band areas of one window.  y - mean(y) of a constant segment is all
\* zero, so its spectrum and both areas are zero; otherwise the areas are
\* whatever the FFT and the integrator give, and they are never negative
\* (Pyy is an absolute value).  The integrator (numerical_integration of
\* .utils) returns them as numpy values or as Python floats: area_type.
IsConstant(y) == \A i, j \in 1..Len(y) : y[i] = y[j]
BandAreas(y) ==
    IF IsConstant(y) THEN {<<0, 0>>}
    ELSE (0..MaxArea) \X (0..MaxArea)

FreezeInit ==
    /\ op = "freeze_of_gait" /\ pc = "fog_start" /\ err = "none"
    /\ data \in Signals(MaxLen, {0, 1})
    /\ window \in -1..MaxWindow
    /\ step_size \in -1..MaxStep
    /\ area_type \in {"numpy", "python"}
    /\ jPos = 0 /\ time = <<>> /\ sumLocoFreeze = <<>> /\ freezeIndex = <<>>
    /\ PeakIdle /\ HeelIdle /\ GaitIdle

\* Lines 110-124: f_res = sampling_frequency / window raises on window = 0.
FoG_Setup ==
    /\ pc = "fog_start"
    /\ IF window = 0
         THEN /\ pc' = "raised" /\ err' = "ZeroDivisionError"
              /\ UNCHANGED jPos
         ELSE /\ pc' = "fog_loop" /\ err' = "none"
              /\ jPos' = FirstPosition(window)
    /\ time' = <<>> /\ sumLocoFreeze' = <<>> /\ freezeIndex' = <<>>
    /\ UNCHANGED <<op, data, window, step_size, area_type, peakVars, heelVars,
                   gaitVars>>

\* Lines 126-145: one iteration of the while loop.  np.fft.fft(y, n) raises
\* ValueError for n < 1, after the position was appended to `time`; the
\* division of line 142 raises ZeroDivisionError on a Python zero, after
\* the sum was appended to `sumLocoFreeze`.
FoG_Window ==
    /\ pc = "fog_loop"
    /\ jPos < Len(data)
    /\ Len(time) < MaxIter
    /\ time' = Append(time, jPos)
    /\ IF window < 1
         THEN /\ pc' = "raised" /\ err' = "ValueError"
              /\ UNCHANGED <<jPos, sumLocoFreeze, freezeIndex>>
         ELSE \E a \in BandAreas(PySlice(data, jPos - window, jPos)) :
              LET areaLocoBand   == a[1]
                  areaFreezeBand == a[2]
              IN  /\ sumLocoFreeze' =
                        Append(sumLocoFreeze, areaFreezeBand + areaLocoBand)
                  /\ IF DivisionRaises(areaLocoBand, area_type)
                       THEN /\ pc' = "raised" /\ err' = "ZeroDivisionError"
                            /\ UNCHANGED <<jPos, freezeIndex>>
                       ELSE /\ freezeIndex' =
                                  Append(freezeIndex,
                                         NpDivide(areaFreezeBand, areaLocoBand))
                            /\ jPos' = NextPosition(jPos, step_size)
                            /\ UNCHANGED <<pc, err>>
    /\ UNCHANGED <<op, data, window, step_size, area_type, peakVars, heelVars,
                   gaitVars>>

\* Lines 126, 147-151: the loop condition fails and the three lists return.
FoG_Return ==
    /\ pc = "fog_loop"
    /\ ~(jPos < Len(data))
    /\ pc' = "returned"
    /\ UNCHANGED <<op, err, freezeVars, peakVars, heelVars, gaitVars>>

FreezeNext == FoG_Setup \/ FoG_Window \/ FoG_Return
SpecFreeze == FreezeInit /\ [][FreezeNext]_vars

(***************************************************************************)
(* frequency_of_peaks                                                      *)
(***************************************************************************)
\* peakdet(v, delta) of .utils, maxima only: hysteresis peak picking.  A
\* running maximum is recorded as a peak once the signal has fallen by at
\* least delta below it; the search for the next maximum restarts once the
\* signal has risen by at least delta above the running minimum.
\* st: i (next index), mx, mxpos, mn, look (looking for a maximum), maxtab.
RECURSIVE PeakScan(_, _, _)
PeakScan(v, d, st) ==
    IF st.i >= Len(v) THEN st.maxtab
    ELSE
      LET this  == At(v, st.i)
          mx    == IF this > st.mx THEN this ELSE st.mx
          mxpos == IF this > st.mx THEN st.i ELSE st.mxpos
          mn    == IF this < st.mn THEN this ELSE st.mn
      IN  IF st.look
            THEN IF this <= mx - d
                   THEN PeakScan(v, d,
                          [i |-> st.i + 1, mx |-> mx, mxpos |-> mxpos, mn |-> this,
                           look |-> FALSE,
                           maxtab |-> Append(st.maxtab, <<mxpos, mx>>)])
                   ELSE PeakScan(v, d,
                          [i |-> st.i + 1, mx |-> mx, mxpos |-> mxpos, mn |-> mn,
                           look |-> TRUE, maxtab |-> st.maxtab])
            ELSE IF this >= mn + d
                   THEN PeakScan(v, d,
                          [i |-> st.i + 1, mx |-> this, mxpos |-> st.i, mn |-> mn,
                           look |-> TRUE, maxtab |-> st.maxtab])
                   ELSE PeakScan(v, d,
                          [i |-> st.i + 1, mx |-> mx, mxpos |-> mxpos, mn |-> mn,
                           look |-> FALSE, maxtab |-> st.maxtab])

PeakDet(v, d) ==
    IF v = <<>> THEN <<>>
    ELSE PeakScan(v, d, [i |-> 1, mx |-> v[1], mxpos |-> 0, mn |-> v[1],
                         look |-> TRUE, maxtab |-> <<>>])

\* data_frame[offset[0] : -offset[1]].x.values
TrimEnds(x, offs) == PySlice(x, offs[1], 0 - offs[2])

\* peaks_data[maxtab[1:,0]] - peaks_data[maxtab[:-1,0]]: the differences of
\* the signal's values at successive peak positions.
PeakDifferences(peaks_data, mt) ==
    [k \in 1..(Len(mt) - 1) |->
        At(peaks_data, mt[k + 1][1]) - At(peaks_data, mt[k][1])]

\* 1 / np.mean(d) for a non-empty d: numpy gives inf for a zero mean.
ReciprocalOfMean(d) ==
    LET s == SumSeq(d)
    IN  IF s = 0 THEN Inf
        ELSE IF s > 0 THEN Finite(Len(d), s)
        ELSE Finite(0 - Len(d), 0 - s)

PeakInit ==
    /\ op = "frequency_of_peaks" /\ pc = "fop_start" /\ err = "none"
    /\ \E n \in (PeakLen - 1)..PeakLen : xsig \in [1..n -> 0..MaxVal]
    /\ start_end_offset \in (0..1) \X (0..1)
    /\ delta \in 1..MaxDelta
    /\ maxtab = <<>> /\ frequency = NaN
    /\ FreezeIdle /\ HeelIdle /\ GaitIdle

\* Lines 161-162: trim the x axis and detect its peaks.
FoP_Detect ==
    /\ pc = "fop_start"
    /\ maxtab' = PeakDet(TrimEnds(xsig, start_end_offset), delta)
    /\ pc' = "fop_mean"
    /\ UNCHANGED <<op, err, xsig, start_end_offset, delta, frequency,
                   freezeVars, heelVars, gaitVars>>

\* Lines 163-166.  With no peak maxtab is a 1-d empty array and maxtab[1:,0]
\* raises IndexError; with one peak the mean of no difference is nan.
FoP_Mean ==
    /\ pc = "fop_mean"
    /\ IF Len(maxtab) = 0
         THEN /\ pc' = "raised" /\ err' = "IndexError"
              /\ UNCHANGED frequency
         ELSE /\ pc' = "returned" /\ err' = "none"
              /\ frequency' =
                    IF Len(maxtab) = 1 THEN NaN
                    ELSE ReciprocalOfMean(
                           PeakDifferences(TrimEnds(xsig, start_end_offset), maxtab))
    /\ UNCHANGED <<op, xsig, start_end_offset, delta, maxtab,
                   freezeVars, heelVars, gaitVars>>

PeakNext == FoP_Detect \/ FoP_Mean
SpecPeaks == PeakInit /\ [][PeakNext]_vars

(***************************************************************************)
(* heel_strikes                                                            *)
(***************************************************************************)
\* data -= np.mean(data), kept exact by scaling with the length: the entry
\* i is Len * data[i] - sum(data).
Demean(m) == [i \in 1..Len(m) |-> Len(m) * m[i] - SumSeq(m)]

RECURSIVE SortedSeq(_)
SortedSeq(S) ==
    IF S = {} THEN <<>>
    ELSE LET lo == CHOOSE x \in S : \A y \in S : x <= y
         IN  <<lo>> \o SortedSeq(S \ {lo})

\* crossings_nonzero_pos2neg of .utils: the sorted indices i at which the
\* signal goes from non-negative at i to negative at i + 1.
Crossings(f) ==
    SortedSeq({i \in 0..(Len(f) - 2) : At(f, i) >= 0 /\ At(f, i + 1) < 0})

\* filtered[segment[imax]] > filter_threshold, with
\* filter_threshold = |threshold * max(filtered)| and threshold in halves.
PassesThreshold(f, v, thr) == 2 * v > Abs(thr * MaxSeq(f))

\* Lines 274-280: for each pair of successive crossings, the position of
\* the maximum of the filtered signal between them, kept if it passes the
\* threshold.  i is the loop variable, from 1 to size(transitions) - 1.
RECURSIVE SmoothCandidates(_, _, _, _)
SmoothCandidates(f, t, thr, i) ==
    IF i >= Len(t) THEN <<>>
    ELSE LET lo   == At(t, i - 1)
             hi   == At(t, i)
             imax == ArgMax(SubSeq(f, lo + 1, hi))
         IN  (IF PassesThreshold(f, At(f, lo + imax), thr)
                THEN <<lo + imax>> ELSE <<>>)
             \o SmoothCandidates(f, t, thr, i + 1)

\* data[ismooth - decel : ismooth + decel]
RefineWindow(d, ismooth, dec) == PySlice(d, ismooth - dec, ismooth + dec)

\* istrike = np.argmax(window) + ismooth - decel
RefinedStrike(d, ismooth, dec) ==
    ArgMax(RefineWindow(d, ismooth, dec)) + ismooth - dec

\* strikes -= strikes[0] on the integer indices, then
\* strikes = strikes / sampling_frequency in float64.
StrikeTimes(idx) ==
    [i \in 1..Len(idx) |-> FloatDivide(idx[i] - idx[1])]

HeelInputs(mags, fvals) ==
    /\ cadence = NotYet
    /\ mag \in mags
    /\ filtered \in fvals
    /\ strike_indices_smooth = <<>> /\ strike_indices = <<>> /\ strikes = <<>>
    /\ step_durations = <<>> /\ number_of_steps = 0
    /\ strides = <<>> /\ stride_durations = <<>>
    /\ measures = Unassigned
    /\ err = "none"
    /\ FreezeIdle /\ PeakIdle

HeelInit ==
    /\ op = "heel_strikes"
    /\ HeelInputs([1..HeelLen -> 0..1], [1..HeelLen -> {-1, 1, 2}])
    /\ decel \in 0..MaxDecel
    /\ threshold \in 1..2
    /\ distance = 0 /\ self_attrs = {} /\ duration = 0
    /\ pc = "hs_start"

\* Lines 259-280: magnitude, filter, crossings and the smoothed candidates.
HS_Candidates ==
    /\ pc = "hs_start"
    /\ strike_indices_smooth' =
          SmoothCandidates(filtered, Crossings(filtered), threshold, 1)
    /\ pc' = "hs_refine"
    /\ UNCHANGED <<op, err, mag, filtered, decel, threshold, strike_indices,
                   strikes, freezeVars, peakVars, gaitVars>>

\* Lines 288-291: one iteration of the refinement loop.  np.argmax of an
\* empty window raises ValueError.
HS_Refine ==
    /\ pc = "hs_refine"
    /\ Len(strike_indices) < Len(strike_indices_smooth)
    /\ LET ismooth == strike_indices_smooth[Len(strike_indices) + 1]
       IN  IF RefineWindow(Demean(mag), ismooth, decel) = <<>>
             THEN /\ pc' = "raised" /\ err' = "ValueError"
                  /\ UNCHANGED strike_indices
             ELSE /\ strike_indices' =
                        Append(strike_indices,
                               RefinedStrike(Demean(mag), ismooth, decel))
                  /\ UNCHANGED <<pc, err>>
    /\ UNCHANGED <<op, mag, filtered, decel, threshold, strike_indices_smooth,
                   strikes, freezeVars, peakVars, gaitVars>>

\* Lines 293-297: strikes[0] of an empty array raises IndexError.
HS_Normalise ==
    /\ pc = "hs_refine"
    /\ Len(strike_indices) = Len(strike_indices_smooth)
    /\ IF strike_indices = <<>>
         THEN /\ pc' = "raised" /\ err' = "IndexError"
              /\ UNCHANGED strikes
         ELSE /\ strikes' = StrikeTimes(strike_indices)
              /\ pc' = IF op = "gait" THEN "gait_steps" ELSE "returned"
              /\ UNCHANGED err
    /\ UNCHANGED <<op, mag, filtered, decel, threshold, strike_indices_smooth,
                   strike_indices, freezeVars, peakVars, gaitVars>>

HeelNext == HS_Candidates \/ HS_Refine \/ HS_Normalise
SpecHeel == HeelInit /\ [][HeelNext]_vars

(***************************************************************************)
(* gait                                                                    *)
(***************************************************************************)
\* a - b of two strike times, in float64.
TimeDiff(a, b) == FloatSub(a, b)

\* [s[i] - s[i-1] for i in range(1, size(s))]
Durations(s) == [i \in 1..(Len(s) - 1) |-> TimeDiff(s[i + 1], s[i])]

\* strikes[0::2] and strikes[1::2]  (EveryEntry: a slice of step 1)
EveryEntry(s)  == s
EvenIndexed(s) == [k \in 1..((Len(s) + 1) \div 2) |-> At(s, 2 * (k - 1))]
OddIndexed(s)  == [k \in 1..(Len(s) \div 2) |-> At(s, 2 * (k - 1) + 1)]

\* Frames of a walk.  The filtered signal is negative at the even samples
\* and positive at the odd ones, so that every odd sample but the last is a
\* crossing; the magnitude is flat but for at most one sample, j, that
\* stands out (j = 0: none).
WalkingSignals(n) ==
    {[i \in 1..n |-> IF i % 2 = 1 THEN -1 ELSE a[i \div 2]] :
        a \in [1..(n \div 2) -> 1..2]}
SpikeTrains(n) ==
    {[i \in 1..n |-> IF i = j THEN 1 ELSE 0] : j \in 0..n}

\* What `self` provides of the three attributes gait reads that __init__
\* (lines 62-98) does not set: a GaitProcessor as constructed provides none
\* (heel_strikes and gait_regularity_symmetry are module-level functions,
\* lines 257 and 299), and each may have been attached by the caller.  gait
\* reads them in this order, so these four cases cover its outcomes.
SelfKinds ==
    { {},
      {"heel_strikes"},
      {"heel_strikes", "duration"},
      {"heel_strikes", "duration", "gait_regularity_symmetry"} }

GaitInit ==
    /\ op = "gait"
    /\ HeelInputs(SpikeTrains(GaitLen), WalkingSignals(GaitLen))
    /\ decel \in 1..MaxDecel
    /\ threshold = 1
    /\ distance \in {0, default_distance}
    /\ self_attrs \in SelfKinds
    /\ duration \in IF "duration" \in self_attrs THEN 0..MaxDuration ELSE {0}
    /\ pc = "gait_start"

\* Line 383: the lookup of self.heel_strikes raises AttributeError on a
\* self without it; otherwise heel_strikes runs, and what it raises
\* propagates.
G_Call ==
    /\ pc = "gait_start"
    /\ IF "heel_strikes" \in self_attrs
         THEN pc' = "hs_start" /\ UNCHANGED err
         ELSE pc' = "raised" /\ err' = "AttributeError"
    /\ UNCHANGED <<op, freezeVars, peakVars, heelVars, gaitVars>>

\* Lines 385-393: the step durations, the number of steps and the cadence.
\* (The mean and deviation of the durations are numpy floats; a mean of no
\* duration is nan and raises nothing.)  Line 393 reads self.duration:
\* AttributeError without it, ZeroDivisionError when it is 0.
G_Steps ==
    /\ pc = "gait_steps"
    /\ step_durations' = Durations(strikes)
    /\ number_of_steps' = Len(strikes)
    /\ IF "duration" \notin self_attrs
         THEN pc' = "raised" /\ err' = "AttributeError" /\ UNCHANGED cadence
         ELSE IF DivisionRaises(duration, "python")
         THEN pc' = "raised" /\ err' = "ZeroDivisionError" /\ UNCHANGED cadence
         ELSE /\ cadence' = NpDivide(Len(strikes), duration)
              /\ pc' = "gait_strides" /\ UNCHANGED err
    /\ UNCHANGED <<op, strides, stride_durations, distance, measures,
                   self_attrs, duration, freezeVars, peakVars, heelVars>>

\* Lines 395-411: the two stride subsequences and their durations.
G_Strides ==
    /\ pc = "gait_strides"
    /\ strides' = <<EvenIndexed(strikes), OddIndexed(strikes)>>
    /\ stride_durations' = <<Durations(EvenIndexed(strikes)),
                             Durations(OddIndexed(strikes))>>
    /\ pc' = "gait_regularity"
    /\ UNCHANGED <<op, err, step_durations, number_of_steps, distance, measures,
                   self_attrs, duration, cadence, freezeVars, peakVars, heelVars>>

\* Lines 413-416: the call self.gait_regularity_symmetry(data, ...) first
\* looks the attribute up (AttributeError on a self without it) and then
\* reads `data`, a name that gait never binds and the module does not
\* define (NameError).  Lines 418-432 (the distance-based measures and the
\* return) are never reached.
G_Regularity ==
    /\ pc = "gait_regularity"
    /\ pc' = "raised"
    /\ err' = IF "gait_regularity_symmetry" \in self_attrs
                THEN "NameError" ELSE "AttributeError"
    /\ UNCHANGED <<op, freezeVars, peakVars, heelVars, gaitVars>>

GaitNext == G_Call \/ HeelNext \/ G_Steps \/ G_Strides \/ G_Regularity
SpecGait == GaitInit /\ [][GaitNext]_vars

(***************************************************************************)
(* Properties.                                                             *)
(***************************************************************************)
Ended == pc \in {"returned", "raised"}

\* a < b of two floats.
TimeLess(a, b) == a.k < b.k \/ (a.k = b.k /\ a.d < b.d)

\* C1: whenever heel_strikes returns, the strike times are strictly
\* increasing and the first strike time is 0.
C1_StrikesStrictlyIncreasing ==
    (op = "heel_strikes" /\ pc = "returned") =>
        /\ strikes[1] = Float(0, 0)
        /\ \A i \in 1..(Len(strikes) - 1) : TimeLess(strikes[i], strikes[i + 1])

\* C2: in the loop and at the return of freeze_of_gait the three lists have
\* one entry per processed window, the i-th position (from 0) is
\* window + 1 + i * step_size and lies below the signal length, and at the
\* return the next position of that progression is not below the length.
C2_WindowPositions ==
    (op = "freeze_of_gait" /\ pc \in {"fog_loop", "returned"}) =>
        /\ Len(time) = Len(freezeIndex)
        /\ Len(time) = Len(sumLocoFreeze)
        /\ \A i \in 1..Len(time) :
              /\ time[i] = window + 1 + (i - 1) * step_size
              /\ time[i] < Len(data)
        /\ pc = "returned" => window + 1 + Len(time) * step_size >= Len(data)

C2_Witness ==
    /\ op = "freeze_of_gait" /\ pc = "returned"
    /\ Len(time) >= 2 /\ step_size >= 2

\* C3: with a positive window and step size, a call of freeze_of_gait on a
\* signal shorter than the window ends by raising InsufficientDataError.
C3_ShortInputRaises ==
    (/\ op = "freeze_of_gait" /\ Ended
     /\ window >= 1 /\ step_size >= 1 /\ Len(data) < window) =>
        (pc = "raised" /\ err = "InsufficientDataError")

\* C4: with a positive window and step size, the division of line 142 is
\* never run on a zero locomotor-band area: no entry of the freeze-index
\* list is non-finite, and the call does not end in the division's own
\* ZeroDivisionError.
C4_FreezeIndexFinite ==
    (op = "freeze_of_gait" /\ window >= 1 /\ step_size >= 1) =>
        /\ \A i \in 1..Len(freezeIndex) : IsFinite(freezeIndex[i])
        /\ err # "ZeroDivisionError"

\* C5: with at least two detected peaks, frequency_of_peaks returns the
\* reciprocal of the mean spacing of the peak positions:
\* (n - 1) / (last position - first position).
C5_ReciprocalOfMeanSpacing ==
    (op = "frequency_of_peaks" /\ pc = "returned" /\ Len(maxtab) >= 2) =>
        /\ IsFinite(frequency)
        /\ frequency.num * (maxtab[Len(maxtab)][1] - maxtab[1][1])
              = (Len(maxtab) - 1) * frequency.den

\* C6: a call of gait on a frame with at least two heel strikes, on a self
\* that provides every attribute gait reads and a non-zero duration,
\* returns, and the three distance-based measures are all None without a
\* distance and all numbers with one.
C6_DistanceMeasures ==
    (/\ op = "gait" /\ Ended /\ Len(strikes) >= 2
     /\ "gait_regularity_symmetry" \in self_attrs /\ duration # 0) =>
        /\ pc = "returned"
        /\ distance = 0 => \A k \in 1..3 : measures[k] = "None"
        /\ distance # 0 => \A k \in 1..3 : measures[k] \notin {"None", "unassigned"}

\* C7: a call of heel_strikes that finds no strike ends by raising an
\* insufficient-data error.
C7_NoStrikeSignalled ==
    (op = "heel_strikes" /\ Ended /\ strike_indices_smooth = <<>>) =>
        (pc = "raised" /\ err = "InsufficientDataError")

\* C8: every iteration of the sliding-window loop of freeze_of_gait moves
\* the window position strictly forward.
C8_WindowAdvances ==
    [][(pc = "fog_loop" /\ pc' = "fog_loop") => jPos' > jPos]_vars

\* The distance between neighbouring float64 values around a, in the units
\* of d (0 for a = 0).
Ulp(a) ==
    IF a.k = 0 THEN 0
    ELSE Spacing(Binade(Abs(a.k), IF a.k < 0 THEN 0 - a.d ELSE a.d))

\* a + b of two floats, as float64 computes it.
FloatAdd(a, b) == RoundToFloat(a.k + b.k, a.d + b.d)

\* step_durations[j] + step_durations[j + 1], in float64.
StepSum(j) == FloatAdd(At(step_durations, j), At(step_durations, j + 1))

\* The strides hold the strikes of each index parity, in order, and their
\* sizes sum to number_of_steps; each has one duration per successive pair.
StridesSplitByParity ==
    /\ Len(strides[1]) + Len(strides[2]) = number_of_steps
    /\ \A i \in 0..(Len(strikes) - 1) :
          At(strides[(i % 2) + 1], i \div 2) = At(strikes, i)
    /\ Len(stride_durations[1]) = Max2(Len(strides[1]) - 1, 0)
    /\ Len(stride_durations[2]) = Max2(Len(strides[2]) - 1, 0)

\* C9, as stated: once gait has split the strikes (lines 395-405 have run),
\* strides[0] holds the strikes at the even indices and strides[1] those at
\* the odd indices, in order, their sizes sum to number_of_steps, and each
\* stride duration equals the sum of the two step durations it spans:
\* stride_durations1[k] = step_durations[2k] + step_durations[2k+1] and
\* stride_durations2[k] = step_durations[2k+1] + step_durations[2k+2].
C9_StrideIsSumOfSteps ==
    (op = "gait" /\ strides # <<>>) =>
        /\ StridesSplitByParity
        /\ \A p \in 1..2 : \A k \in 0..(Len(stride_durations[p]) - 1) :
              At(stride_durations[p], k) = StepSum(2 * k + p - 1)

\* C9, amended: once gait has split the strikes, the strides partition the
\* strikes by index parity as above, and each stride duration is the
\* float64 difference of the two strike times it spans (two strikes
\* apart); it agrees with the float64 sum of the two step durations it
\* spans on the number of samples and to within 3 units in the last place
\* of the largest of the three durations, and need not equal it.
C9_StridePartition ==
    (op = "gait" /\ strides # <<>>) =>
        /\ StridesSplitByParity
        /\ \A p \in 1..2 : \A k \in 0..(Len(stride_durations[p]) - 1) :
              LET j   == 2 * k + p - 1
                  sd  == At(stride_durations[p], k)
                  s1  == At(step_durations, j)
                  s2  == At(step_durations, j + 1)
                  ulp == Max2(Ulp(sd), Max2(Ulp(s1), Ulp(s2)))
              IN  /\ sd = FloatSub(At(strikes, j + 2), At(strikes, j))
                  /\ StepSum(j).k = sd.k
                  /\ Abs(StepSum(j).d - sd.d) <= 3 * ulp

C9_Witness ==
    /\ op = "gait" /\ pc = "gait_regularity"
    /\ Len(strikes) >= 4
    /\ At(stride_durations[1], 0).k > 0
    /\ At(stride_durations[2], 0) # StepSum(1)

\* C10: with a half-interpeak window of at least one sample, the refinement
\* of a candidate s never fails on an empty window, and every refined index
\* is a sample index in [s - decel, s + decel) at which the unfiltered
\* signal is largest over that window.
C10_RefinedInWindow ==
    (op = "heel_strikes" /\ decel >= 1) =>
        /\ ~(pc = "raised" /\ err = "ValueError")
        /\ \A k \in 1..Len(strike_indices) :
              LET s == strike_indices_smooth[k]
                  r == strike_indices[k]
              IN  /\ r \in 0..(Len(mag) - 1)
                  /\ s - decel <= r /\ r < s + decel
                  /\ \A j \in 0..(Len(mag) - 1) :
                        (s - decel <= j /\ j < s + decel) =>
                            At(Demean(mag), j) <= At(Demean(mag), r)

====
